---- MODULE Spec2Model ----
(***************************************************************************)
(* Attentiveness tracking of src/app.py: the module-level dictionary       *)
(* lecture_sessions and the three HTTP handlers that read and write it     *)
(* (/api/start-lecture, /api/analyze-emotion, /api/end-lecture).           *)
(*                                                                         *)
(* Confidences are floats in [0,1] in the source; they are kept here in    *)
(* hundredths (0.6 is 60).  Time stamps (last_seen), the database rows,    *)
(* the socket broadcasts, the order of the summary list and its fields       *)
(* avg_confidence and top_distraction are not part of the model.           *)
(***************************************************************************)
EXTENDS Integers, Sequences, FiniteSets, TLC

\* ------------------------------------------------------------------ constants
HISTORY_LENGTH == 3
CONFIDENCE_THRESHOLD == 60
CONSECUTIVE_FRAMES_REQUIRED == 2
SECONDS_PER_FRAME == 2

\* ------------------------------------------------------------------ bounds
\* frames accepted by /api/analyze-emotion between two /api/start-lecture
MaxFrames == 4
\* largest total_frames the percentage computation is applied to
MaxPctTotal == 12

\* ------------------------------------------------------------------ inputs
\* identify_face returns the name of a known face or the literal "Unknown"
Unknown == "Unknown"
Labels == {"Alice", Unknown}
\* model.predict confidences, in hundredths: 0.0 (no prediction), the
\* threshold itself, and a high one
Confidences == {0, 60, 90}
\* status_message values handed over as distraction_reason
Reasons == {"Distracted (Looking Sideways)"}
None == "None"
Roles == {"teacher", "student", "anonymous"}
Bodies == {"image", "no_image", "not_json"}

VARIABLES
    emotion_recognition_available, \* app.py: set once at import
    lecture_sessions,      \* app.py: student name -> session record
    result,                \* analyze_emotion: the detector's last result
    response,              \* the last HTTP response
    observed,              \* history: labels observed since the last start
    accepted,              \* history: label -> the observations that passed the gate since the last start
    discarded,             \* history: the labels whose state the last request removed
    pct_in,                \* SpecPct: the counters of the one student summarized
    pct_out,               \* SpecPct: the summary entry computed from them
    objects,               \* SpecConc: the session dicts allocated, by reference
    sessions_dict,         \* SpecConc: lecture_sessions as name -> reference, in insertion order
    calls,                 \* SpecConc: each analyze_emotion request's position and locals
    iterator,              \* SpecConc: the end_emotion_tracking request's position and locals
    os_linesep,            \* the platform's line separator
    cache_file,            \* SpecCache: the content of cache_dir/lesson_<n>.txt for one key
    lookups,               \* SpecCache: each _teach_unit call's position and locals
    stored,                \* SpecCache history: the text the last successful write_text was given
    variant,               \* SpecTeach: which of the two teaching loops runs
    cache,                 \* SpecTeach: unit number -> the content of lesson_<n>.txt
    fg_i,                  \* SpecTeach: the loop variable i of the teaching loop
    fg_pc,                 \* SpecTeach: the position of the teaching loop
    lecture,               \* SpecTeach: the loop's local lecture
    next_lecture,          \* SpecTeach: the handoff variable of the closures
    next_lecture_ready,    \* SpecTeach: the threading.Event of the handoff
    generation_error,      \* SpecTeach: whether the loop's generation_error is set
    threads,               \* SpecTeach: unit number -> the background thread started for it
    events,                \* SpecTeach: the progress dicts yielded so far
    prepared,              \* SpecTeach history: unit number -> how its lecture was prepared
    teaching_complete,     \* SpecTeach: self.teaching_complete
    senku_state,           \* SpecStream: the module-level senku_state dict
    streams,               \* SpecStream: stream number -> the generate() generator of one response
    teachers,              \* SpecStream: stream number -> the AutonomousTeacher the stream drives
    generation             \* SpecOllama: one _generate_teacher_lecture call and its requests

concVars == <<objects, sessions_dict, calls, iterator>>

cacheVars == <<cache_file, lookups, stored>>

teachVars == <<variant, cache, fg_i, fg_pc, lecture, next_lecture, next_lecture_ready,
               generation_error, threads, events, prepared, teaching_complete>>

serviceVars == <<senku_state, streams, teachers, generation>>

vars == <<emotion_recognition_available, lecture_sessions, result, response,
          observed, accepted, discarded, pct_in, pct_out, concVars, os_linesep, cacheVars,
          teachVars, serviceVars>>

\* ------------------------------------------------------------------ dictionaries
EmptyDict == [k \in {} |-> 0]

DictGet(d, k, default) == IF k \in DOMAIN d THEN d[k] ELSE default

DictSet(d, k, v) == [x \in (DOMAIN d) \cup {k} |-> IF x = k THEN v ELSE d[x]]

RECURSIVE SumValues(_)
SumValues(d) ==
    IF DOMAIN d = {} THEN 0
    ELSE LET k == CHOOSE x \in DOMAIN d : TRUE
         IN d[k] + SumValues([x \in (DOMAIN d) \ {k} |-> d[x]])

\* sum(session['history']): the number of True entries
RECURSIVE CountTrue(_)
CountTrue(h) == IF h = <<>> THEN 0 ELSE (IF Head(h) THEN 1 ELSE 0) + CountTrue(Tail(h))

\* ------------------------------------------------------------------ analyze_emotion
NewSession ==
    [total_frames |-> 0, attentive_frames |-> 0, history |-> <<>>,
     confidence_scores |-> <<>>, distraction_reasons |-> EmptyDict,
     current_state |-> TRUE]

NoResult ==
    [success |-> FALSE, message |-> "", student_name |-> "", is_attentive |-> FALSE,
     confidence |-> 0, distraction_reason |-> None]

\* the values analyze_emotion_from_base64 returns
DetectorFailures ==
    {[NoResult EXCEPT !.message = m] : m \in {"No face detected", "Failed to decode image"}}

DetectorSuccesses ==
    {[success |-> TRUE, message |-> "", student_name |-> n, is_attentive |-> TRUE,
      confidence |-> c, distraction_reason |-> None] : n \in Labels, c \in Confidences}
    \cup
    {[success |-> TRUE, message |-> "", student_name |-> n, is_attentive |-> FALSE,
      confidence |-> c, distraction_reason |-> r] : n \in Labels, c \in Confidences, r \in Reasons}

\* the gate left out: every detection is taken into the window
PassesGate_Ungated(confidence) == confidence >= 0

\* if confidence >= CONFIDENCE_THRESHOLD:
PassesGate(confidence) == confidence >= CONFIDENCE_THRESHOLD

\* the window never trimmed
PushWindow_Unbounded(window, x) == Append(window, x)

\* append, then pop(0) when the window overflows
PushWindow(window, x) ==
    LET w == Append(window, x)
    IN IF Len(w) > HISTORY_LENGTH THEN Tail(w) ELSE w

\* the two most recent frames must both be attentive
SmoothedState_Consecutive(history, raw_is_attentive) ==
    IF Len(history) >= HISTORY_LENGTH
    THEN history[Len(history)] /\ history[Len(history) - 1]
    ELSE raw_is_attentive

\* the vote taken over a window that is not full yet
SmoothedState_NoWarmUp(history, raw_is_attentive) ==
    CountTrue(history) >= CONSECUTIVE_FRAMES_REQUIRED

\* "TEMPORAL SMOOTHING": the vote once the window is full, the raw value before
SmoothedState(history, raw_is_attentive) ==
    IF Len(history) >= HISTORY_LENGTH
    THEN CountTrue(history) >= CONSECUTIVE_FRAMES_REQUIRED
    ELSE raw_is_attentive

\* the tally kept for every accepted observation, attentive ones under None
TrackDistraction_Every(reasons, res) ==
    DictSet(reasons, res.distraction_reason,
            DictGet(reasons, res.distraction_reason, 0) + 1)

\* "Track distraction reasons if available": the detector's result always has the
\* key, with the status message when the raw value is distracted, else None
TrackDistraction(reasons, res) ==
    IF ~res.is_attentive
    THEN DictSet(reasons, res.distraction_reason,
                 DictGet(reasons, res.distraction_reason, 0) + 1)
    ELSE reasons

\* the high-confidence branch
AcceptObservation(s, res) ==
    LET h == PushWindow(s.history, res.is_attentive)
    IN [s EXCEPT !.history = h,
                 !.confidence_scores = PushWindow(s.confidence_scores, res.confidence),
                 !.current_state = SmoothedState(h, res.is_attentive),
                 !.distraction_reasons = TrackDistraction(s.distraction_reasons, res)]

\* the two counters taken for one another
CountFrame_Swapped(s) ==
    [s EXCEPT !.attentive_frames = @ + 1,
              !.total_frames = IF s.current_state THEN @ + 1 ELSE @]

\* "Update session stats"
CountFrame(s) ==
    [s EXCEPT !.total_frames = @ + 1,
              !.attentive_frames = IF s.current_state THEN @ + 1 ELSE @]

\* a low-confidence frame counted by its own raw value
Observe_RawCount(s, res) ==
    IF PassesGate(res.confidence) THEN CountFrame(AcceptObservation(s, res))
    ELSE [s EXCEPT !.total_frames = @ + 1,
                   !.attentive_frames = IF res.is_attentive THEN @ + 1 ELSE @]

\* the gate, then "Update session stats" with the state the gate left
Observe(s, res) ==
    CountFrame(IF PassesGate(res.confidence) THEN AcceptObservation(s, res) ELSE s)

DetectionQuality(confidence) ==
    IF confidence >= 80 THEN "high"
    ELSE IF confidence >= CONFIDENCE_THRESHOLD THEN "medium" ELSE "low"

\* ------------------------------------------------------------------ responses
NoData ==
    [student_name |-> "", is_attentive |-> FALSE, confidence |-> 0,
     history |-> <<>>, detection_quality |-> ""]

Response(op, status, success, message) ==
    [op |-> op, status |-> status, success |-> success, message |-> message,
     data |-> NoData, summary |-> {}]

NoResponse == Response("", 0, FALSE, "")

\* ------------------------------------------------------------------ end_emotion_tracking
\* int() in the place of round()
PyRound_Floor(n, d) == n \div d

\* round(): to the nearest integer, halves to the even one.  n >= 0, d > 0.
\* (The source rounds the float n/d*100; the two agree for every d < 40.)
PyRound(n, d) ==
    LET q == n \div d
        r == n % d
    IN IF 2 * r > d \/ (2 * r = d /\ q % 2 = 1) THEN q + 1 ELSE q

AttentivePercentage(attentive_frames, total_frames) ==
    IF total_frames > 0 THEN PyRound(attentive_frames * 100, total_frames) ELSE 0

SummaryEntry(student_name, data) ==
    [name |-> student_name,
     total_frames |-> data.total_frames,
     attentive_frames |-> data.attentive_frames,
     attentive_percentage |-> AttentivePercentage(data.attentive_frames, data.total_frames),
     total_time_seconds |-> data.total_frames * SECONDS_PER_FRAME,
     distraction_count |-> SumValues(data.distraction_reasons)]

\* for student_name, data in lecture_sessions.items(): summary.append(...)
\* (the list, without its order)
Summary(sessions) ==
    {SummaryEntry(student_name, sessions[student_name]) : student_name \in DOMAIN sessions}

\* ------------------------------------------------------------------ handlers
\* teacher_required: 0 when the wrapped handler runs, else the status returned
TeacherRequired(role) ==
    IF role = "anonymous" THEN 401 ELSE IF role # "teacher" THEN 403 ELSE 0

AuthMessage(status) ==
    IF status = 401 THEN "Authentication required"
    ELSE "Access denied. Teacher privileges required."

SumTotalFrames(sessions) ==
    SumValues([k \in DOMAIN sessions |-> sessions[k].total_frames])

\* ------------------------------------------------------------------ concurrent requests
\* the requests of one lecture served by the threads of the development server,
\* which share lecture_sessions without any lock

\* bound: the analyze_emotion requests in flight together
MaxCalls == 2

Calls == 1 .. MaxCalls

\* the detections the concurrent requests carry: one attentive face per label
ConcResults ==
    {r \in DetectorSuccesses : r.confidence = 90 /\ r.is_attentive}

IdleCall == [pc |-> "idle", res |-> NoResult, session |-> 0, tmp |-> 0]

IdleIterator == [pc |-> "idle", di_used |-> 0, di_pos |-> 0, summary |-> {}]

\* student_name in lecture_sessions
DictHas(d, k) == \E i \in 1 .. Len(d) : d[i].name = k

\* lecture_sessions[student_name]
DictRef(d, k) == d[CHOOSE i \in 1 .. Len(d) : d[i].name = k].ref

\* lecture_sessions[student_name] = <a new dict>: a new key goes last, an
\* existing key keeps its place and loses its former value
DictStore(d, k, ref) ==
    IF DictHas(d, k)
    THEN [i \in 1 .. Len(d) |-> IF d[i].name = k THEN [name |-> k, ref |-> ref] ELSE d[i]]
    ELSE Append(d, [name |-> k, ref |-> ref])

\* the collection as name -> record
Deref(d, heap) ==
    [n \in {d[i].name : i \in 1 .. Len(d)} |-> heap[DictRef(d, n)]]

InitConcVars ==
    /\ objects = <<>>
    /\ sessions_dict = <<>>
    /\ calls = [c \in Calls |-> IdleCall]
    /\ iterator = IdleIterator

\* ------------------------------------------------------------------ lecture texts and the cache file
\* a text is the sequence of its characters, a run of other characters standing as one
CR == "CR"
LF == "LF"

\* self.cache_dir / f"lesson_{unit_num}.txt" does not exist
NoFile == <<"no file">>

\* the Python value None where a lecture text is expected
NoneText == <<"None">>

\* bound: the units of the curriculum
MaxUnits == 3

Units == 1 .. MaxUnits

\* header = f"Lesson {unit_num}\n\n"
Header(unit_num) == <<"Lesson", ToString(unit_num), LF, LF>>

\* lecture_content.strip() for the responses of the language model
LectureContents == {<<"a">>, <<"a", CR, LF, "b">>}

TimeoutMessage(unit_num) == Header(unit_num) \o <<"I apologize, difficulty preparing">>

NoContentMessage(unit_num) == Header(unit_num) \o <<"I apologize, no content found">>

\* generate_with_ollama: the response, or an exception after the retries
OllamaOutcomes ==
    {[raised |-> FALSE, response |-> c] : c \in LectureContents}
        \cup {[raised |-> TRUE, response |-> <<>>]}

\* the fallback dropped: the exception reaches _teach_unit's own except clause
GenerateTeacherLecture_NoFallback(unit_num, o) ==
    IF o.raised THEN <<"Error teaching", ToString(unit_num)>>
    ELSE Header(unit_num) \o o.response

\* _generate_teacher_lecture: header and stripped response, or the timeout
\* message when generate_with_ollama raises
GenerateTeacherLecture(unit_num, o) ==
    IF o.raised THEN TimeoutMessage(unit_num)
    ELSE Header(unit_num) \o o.response

\* the miss branch of _teach_unit up to "Step 3", each text with the way it arose
Generations(unit_num) ==
    {[source |-> "no_content", lecture |-> NoContentMessage(unit_num)]}
        \cup {[source |-> IF o.raised THEN "fallback" ELSE "generated",
                lecture |-> GenerateTeacherLecture(unit_num, o)] : o \in OllamaOutcomes}

GenerateLecture(unit_num) == {g.lecture : g \in Generations(unit_num)}

\* text-mode reading with newline=None: "\r\n" and "\r" become "\n"
RECURSIVE UniversalNewlines(_)
UniversalNewlines(t) ==
    IF t = <<>> THEN <<>>
    ELSE IF Head(t) = CR
         THEN <<LF>> \o UniversalNewlines(IF Len(t) > 1 /\ t[2] = LF
                                          THEN Tail(Tail(t)) ELSE Tail(t))
         ELSE <<Head(t)>> \o UniversalNewlines(Tail(t))

\* text-mode writing with newline=None: "\n" becomes os.linesep
RECURSIVE TranslateNewlines(_, _)
TranslateNewlines(t, linesep) ==
    IF t = <<>> THEN <<>>
    ELSE (IF Head(t) = LF THEN linesep ELSE <<Head(t)>>)
            \o TranslateNewlines(Tail(t), linesep)

\* cache_file.read_text(encoding='utf-8')
ReadText(content) == UniversalNewlines(content)

\* the file after cache_file.write_text(lecture, encoding='utf-8')
WriteText(text) == TranslateNewlines(text, os_linesep)

\* the file after a write_text that raised: open() failed and the file is as it
\* was, or the write failed after open() had created or truncated it
FailedWrite(content) == {content, <<>>}

\* bound: the _teach_unit calls for the one key
MaxLookups == 2

Lookups == 1 .. MaxLookups

\* the unit whose cache entry the calls look up
CachedUnit == 1

IdleLookup ==
    [pc |-> "idle", lecture |-> NoneText, stored_before |-> NoFile, generated |-> FALSE,
     write |-> "none"]

InitCacheVars ==
    /\ cache_file = NoFile
    /\ lookups = [c \in Lookups |-> IdleLookup]
    /\ stored = NoFile

\* _teach_unit run to its end on a cache file with the given content: the text
\* returned, the file left behind and the way the text arose
TeachUnit(content, unit_num) ==
    LET miss == UNION {{[lecture |-> g.lecture, file |-> f, source |-> g.source] :
                          f \in {WriteText(g.lecture)} \cup FailedWrite(content)} :
                       g \in Generations(unit_num)}
    IN IF content # NoFile
       THEN {[lecture |-> ReadText(content), file |-> content, source |-> "cache"]}
                \cup miss
       ELSE miss

NoThread == [pc |-> "none", kind |-> "none"]

NotPrepared == [source |-> "none", lecture |-> NoneText]

InitTeachVars ==
    /\ variant = "highlighting"
    /\ cache = [u \in Units |-> NoFile]
    /\ fg_i = 1
    /\ fg_pc = "prepare"
    /\ lecture = NoneText
    /\ next_lecture = NoneText
    /\ next_lecture_ready = FALSE
    /\ generation_error = FALSE
    /\ threads = [u \in Units |-> NoThread]
    /\ events = <<>>
    /\ prepared = [u \in Units |-> NotPrepared]
    /\ teaching_complete = FALSE

\* bound: the start-teaching requests, each with its own response stream
MaxStreams == 2

Streams == 1 .. MaxStreams

NoStream ==
    [pc |-> "none", progress |-> "none", emitted |-> <<>>, stop_accepted |-> FALSE,
     fetched_after_stop |-> FALSE]

NoTeacher == [pc |-> "none", unit |-> 0, thread |-> "none"]

\* bound: the retry budgets a generate_with_ollama call is made with
MaxRetries == 2

IdleGeneration ==
    [max_retries |-> 0, unit_num |-> 0, attempt |-> 0, outcomes |-> <<>>,
     status |-> "idle", response |-> NoneText, lecture |-> NoneText]

InitServiceVars ==
    /\ senku_state = [current_teacher |-> 0, teaching_active |-> FALSE,
                      teaching_stopped |-> FALSE, teaching_paused |-> FALSE]
    /\ streams = [s \in Streams |-> NoStream]
    /\ teachers = [s \in Streams |-> NoTeacher]
    /\ generation = IdleGeneration

Init ==
    /\ emotion_recognition_available \in BOOLEAN
    /\ lecture_sessions = [k \in {} |-> NewSession]
    /\ result = NoResult
    /\ response = NoResponse
    /\ observed = {}
    /\ accepted = [n \in Labels |-> <<>>]
    /\ discarded = {}
    /\ pct_in = [total_frames |-> 0, attentive_frames |-> 0]
    /\ pct_out = <<>>
    /\ InitConcVars
    /\ os_linesep = <<LF>>
    /\ InitCacheVars
    /\ InitServiceVars
    /\ InitTeachVars

\* a start refused while student state is held
start_emotion_tracking_Guarded ==
    /\ \E role \in Roles, db_ok \in BOOLEAN :
        LET denied == TeacherRequired(role)
        IN IF denied # 0
           THEN /\ response' = Response("start-lecture", denied, FALSE, AuthMessage(denied))
                /\ discarded' = {}
                /\ UNCHANGED <<lecture_sessions, observed, accepted>>
           ELSE IF DOMAIN lecture_sessions # {}
           THEN /\ response' = Response("start-lecture", 409, FALSE, "Lecture session active")
                /\ discarded' = {}
                /\ UNCHANGED <<lecture_sessions, observed, accepted>>
           ELSE /\ lecture_sessions' = [k \in {} |-> NewSession]
                /\ discarded' = DOMAIN lecture_sessions
                /\ response' = Response("start-lecture", 200, TRUE,
                                        IF db_ok THEN "Lecture session started"
                                        ELSE "Lecture session started (tracking only)")
                /\ observed' = {}
                /\ accepted' = [n \in Labels |-> <<>>]
    /\ result' = NoResult
    /\ UNCHANGED <<emotion_recognition_available, pct_in, pct_out, concVars, os_linesep, cacheVars,
                   teachVars, serviceVars>>

\* a start that keeps the previous session's data
start_emotion_tracking_Keep ==
    /\ \E role \in Roles, db_ok \in BOOLEAN :
        LET denied == TeacherRequired(role)
        IN IF denied # 0
           THEN /\ response' = Response("start-lecture", denied, FALSE, AuthMessage(denied))
                /\ discarded' = {}
                /\ UNCHANGED <<lecture_sessions, observed, accepted>>
           ELSE /\ lecture_sessions' = lecture_sessions
                /\ discarded' = {}
                /\ response' = Response("start-lecture", 200, TRUE,
                                        IF db_ok THEN "Lecture session started"
                                        ELSE "Lecture session started (tracking only)")
                /\ observed' = {}
                /\ accepted' = [n \in Labels |-> <<>>]
    /\ result' = NoResult
    /\ UNCHANGED <<emotion_recognition_available, pct_in, pct_out, concVars, os_linesep, cacheVars,
                   teachVars, serviceVars>>

\* POST /api/start-lecture
start_emotion_tracking ==
    /\ \E role \in Roles, db_ok \in BOOLEAN :
        LET denied == TeacherRequired(role)
        IN IF denied # 0
           THEN /\ response' = Response("start-lecture", denied, FALSE, AuthMessage(denied))
                /\ discarded' = {}
                /\ UNCHANGED <<lecture_sessions, observed, accepted>>
           ELSE /\ lecture_sessions' = [k \in {} |-> NewSession]
                /\ discarded' = DOMAIN lecture_sessions
                /\ response' = Response("start-lecture", 200, TRUE,
                                        IF db_ok THEN "Lecture session started"
                                        ELSE "Lecture session started (tracking only)")
                /\ observed' = {}
                /\ accepted' = [n \in Labels |-> <<>>]
    /\ result' = NoResult
    /\ UNCHANGED <<emotion_recognition_available, pct_in, pct_out, concVars, os_linesep, cacheVars,
                   teachVars, serviceVars>>

\* "Initialize student session if new"
TrackStudent(sessions, student_name) ==
    IF student_name \in DOMAIN sessions
    THEN sessions
    ELSE DictSet(sessions, student_name, NewSession)

\* the frame counted for every tracked student
ApplyObservation_Shared(sessions, res) ==
    [n \in DOMAIN TrackStudent(sessions, res.student_name) |->
        IF n = res.student_name
        THEN Observe(TrackStudent(sessions, res.student_name)[n], res)
        ELSE CountFrame(sessions[n])]

\* session = lecture_sessions[student_name], updated in place
ApplyObservation(sessions, res) ==
    [TrackStudent(sessions, res.student_name) EXCEPT
        ![res.student_name] = Observe(@, res)]

\* unrecognized faces turned away
Detected_KnownOnly(res) == res.success /\ res.student_name # Unknown

\* if result['success']:
Detected(res) == res.success

\* the body of "if result['success']:" for the detector result res
AnalyzeSuccess(res) ==
    LET student_name == res.student_name
        sessions == ApplyObservation(lecture_sessions, res)
        session == sessions[student_name]
    IN /\ SumTotalFrames(lecture_sessions) < MaxFrames
       /\ lecture_sessions' = sessions
       /\ response' = [Response("analyze-emotion", 200, TRUE, "") EXCEPT
                         !.data = [student_name |-> student_name,
                                   is_attentive |-> session.current_state,
                                   confidence |-> res.confidence,
                                   history |-> session.history,
                                   detection_quality |-> DetectionQuality(res.confidence)]]
       /\ observed' = observed \cup {student_name}
       /\ accepted' = IF res.confidence >= CONFIDENCE_THRESHOLD
                      THEN [accepted EXCEPT ![student_name] =
                              Append(@, [raw |-> res.is_attentive,
                                         confidence |-> res.confidence])]
                      ELSE accepted

\* POST /api/analyze-emotion
analyze_emotion ==
    /\ IF ~emotion_recognition_available
       THEN /\ response' = Response("analyze-emotion", 503, FALSE,
                                    "Emotion recognition not available")
            /\ result' = NoResult
            /\ UNCHANGED <<lecture_sessions, observed, accepted>>
       ELSE \E body \in Bodies :
              CASE body = "not_json" ->
                     /\ response' = Response("analyze-emotion", 500, FALSE, "exception")
                     /\ result' = NoResult
                     /\ UNCHANGED <<lecture_sessions, observed, accepted>>
                [] body = "no_image" ->
                     /\ response' = Response("analyze-emotion", 400, FALSE,
                                             "No image data provided")
                     /\ result' = NoResult
                     /\ UNCHANGED <<lecture_sessions, observed, accepted>>
                [] body = "image" ->
                     \E res \in DetectorFailures \cup DetectorSuccesses :
                        /\ result' = res
                        /\ IF Detected(res)
                           THEN AnalyzeSuccess(res)
                           ELSE /\ response' = Response("analyze-emotion", 400, FALSE,
                                                        res.message)
                                /\ UNCHANGED <<lecture_sessions, observed, accepted>>
    /\ discarded' = {}
    /\ UNCHANGED <<emotion_recognition_available, pct_in, pct_out, concVars, os_linesep, cacheVars,
                   teachVars, serviceVars>>

\* an end that disposes of the student records after reading them
end_emotion_tracking_Dispose ==
    /\ \E role \in Roles :
        LET denied == TeacherRequired(role)
        IN IF denied # 0
           THEN /\ response' = Response("end-lecture", denied, FALSE, AuthMessage(denied))
                /\ UNCHANGED lecture_sessions
           ELSE /\ response' = [Response("end-lecture", 200, TRUE, "") EXCEPT
                                  !.summary = Summary(lecture_sessions)]
                /\ lecture_sessions' = [k \in {} |-> NewSession]
    /\ result' = NoResult
    /\ discarded' = {}
    /\ UNCHANGED <<emotion_recognition_available, observed, accepted, pct_in, pct_out,
                   concVars, os_linesep, cacheVars,
                   teachVars, serviceVars>>

\* POST /api/end-lecture
end_emotion_tracking ==
    /\ \E role \in Roles :
        LET denied == TeacherRequired(role)
        IN IF denied # 0
           THEN response' = Response("end-lecture", denied, FALSE, AuthMessage(denied))
           ELSE response' = [Response("end-lecture", 200, TRUE, "") EXCEPT
                               !.summary = Summary(lecture_sessions)]
    /\ result' = NoResult
    /\ discarded' = {}
    /\ UNCHANGED <<emotion_recognition_available, lecture_sessions, observed, accepted,
                   pct_in, pct_out, concVars, os_linesep, cacheVars,
                   teachVars, serviceVars>>

Next == start_emotion_tracking \/ analyze_emotion \/ end_emotion_tracking

Spec == Init /\ [][Next]_vars

\* ------------------------------------------------------------------ the percentage alone
\* the loop body of end_emotion_tracking applied to one student's counters
InitPct ==
    /\ emotion_recognition_available = TRUE
    /\ lecture_sessions = [k \in {} |-> NewSession]
    /\ result = NoResult
    /\ response = NoResponse
    /\ observed = {}
    /\ accepted = [n \in Labels |-> <<>>]
    /\ discarded = {}
    /\ pct_in \in {[total_frames |-> t, attentive_frames |-> a] :
                      t \in 0..MaxPctTotal, a \in 0..MaxPctTotal}
    /\ pct_in.attentive_frames <= pct_in.total_frames
    /\ pct_out = <<>>
    /\ InitConcVars
    /\ os_linesep = <<LF>>
    /\ InitCacheVars
    /\ InitServiceVars
    /\ InitTeachVars

SummarizeOne ==
    /\ pct_out = <<>>
    /\ pct_out' = <<SummaryEntry("Alice",
                       [NewSession EXCEPT !.total_frames = pct_in.total_frames,
                                          !.attentive_frames = pct_in.attentive_frames])>>
    /\ UNCHANGED <<emotion_recognition_available, lecture_sessions, result, response,
                   observed, accepted, discarded, pct_in, concVars,
                   os_linesep, cacheVars,
                   teachVars, serviceVars>>

NextPct == SummarizeOne

SpecPct == InitPct /\ [][NextPct]_vars

\* ------------------------------------------------------------------ the interleaved handlers
attentionFixed == <<emotion_recognition_available, lecture_sessions, result, observed,
                    accepted, discarded, pct_in, pct_out, os_linesep, cacheVars,
                   teachVars, serviceVars>>

InitConc ==
    /\ emotion_recognition_available = TRUE
    /\ lecture_sessions = [k \in {} |-> NewSession]
    /\ result = NoResult
    /\ response = NoResponse
    /\ observed = {}
    /\ accepted = [n \in Labels |-> <<>>]
    /\ discarded = {}
    /\ pct_in = [total_frames |-> 0, attentive_frames |-> 0]
    /\ pct_out = <<>>
    /\ InitConcVars
    /\ os_linesep = <<LF>>
    /\ InitCacheVars
    /\ InitServiceVars
    /\ InitTeachVars

\* a request arrives and the detector has recognised a face
ae_detect ==
    \E c \in Calls, res \in ConcResults :
        /\ calls[c].pc = "idle"
        /\ calls' = [calls EXCEPT ![c] = [@ EXCEPT !.pc = "check", !.res = res]]
        /\ UNCHANGED <<objects, sessions_dict, iterator, response, attentionFixed>>

\* if student_name not in lecture_sessions:
ae_check ==
    \E c \in Calls :
        /\ calls[c].pc = "check"
        /\ calls' = [calls EXCEPT ![c].pc =
                        IF DictHas(sessions_dict, calls[c].res.student_name)
                        THEN "get" ELSE "create"]
        /\ UNCHANGED <<objects, sessions_dict, iterator, response, attentionFixed>>

\* lecture_sessions[student_name] = {'total_frames': 0, ...}
ae_create ==
    \E c \in Calls :
        /\ calls[c].pc = "create"
        /\ objects' = Append(objects, NewSession)
        /\ sessions_dict' = DictStore(sessions_dict, calls[c].res.student_name,
                                      Len(objects) + 1)
        /\ calls' = [calls EXCEPT ![c].pc = "get"]
        /\ UNCHANGED <<iterator, response, attentionFixed>>

\* session = lecture_sessions[student_name]
ae_get ==
    \E c \in Calls :
        /\ calls[c].pc = "get"
        /\ calls' = [calls EXCEPT ![c] =
                        [@ EXCEPT !.pc = "smooth",
                                  !.session = DictRef(sessions_dict,
                                                     calls[c].res.student_name)]]
        /\ UNCHANGED <<objects, sessions_dict, iterator, response, attentionFixed>>

\* the gate, the window, the smoothed state and the distraction tally
ae_smooth ==
    \E c \in Calls :
        /\ calls[c].pc = "smooth"
        /\ objects' = [objects EXCEPT ![calls[c].session] =
                          IF PassesGate(calls[c].res.confidence)
                          THEN AcceptObservation(@, calls[c].res) ELSE @]
        /\ calls' = [calls EXCEPT ![c].pc = "load_total"]
        /\ UNCHANGED <<sessions_dict, iterator, response, attentionFixed>>

\* session['total_frames'] += 1: the read
ae_load_total ==
    \E c \in Calls :
        /\ calls[c].pc = "load_total"
        /\ calls' = [calls EXCEPT ![c] =
                        [@ EXCEPT !.pc = "store_total",
                                  !.tmp = objects[calls[c].session].total_frames]]
        /\ UNCHANGED <<objects, sessions_dict, iterator, response, attentionFixed>>

\* session['total_frames'] += 1: the write
ae_store_total ==
    \E c \in Calls :
        /\ calls[c].pc = "store_total"
        /\ objects' = [objects EXCEPT ![calls[c].session].total_frames = calls[c].tmp + 1]
        /\ calls' = [calls EXCEPT ![c].pc =
                        IF objects[calls[c].session].current_state
                        THEN "load_attentive" ELSE "done"]
        /\ UNCHANGED <<sessions_dict, iterator, response, attentionFixed>>

\* session['attentive_frames'] += 1: the read
ae_load_attentive ==
    \E c \in Calls :
        /\ calls[c].pc = "load_attentive"
        /\ calls' = [calls EXCEPT ![c] =
                        [@ EXCEPT !.pc = "store_attentive",
                                  !.tmp = objects[calls[c].session].attentive_frames]]
        /\ UNCHANGED <<objects, sessions_dict, iterator, response, attentionFixed>>

\* session['attentive_frames'] += 1: the write; the request returns 200
ae_store_attentive ==
    \E c \in Calls :
        /\ calls[c].pc = "store_attentive"
        /\ objects' = [objects EXCEPT ![calls[c].session].attentive_frames = calls[c].tmp + 1]
        /\ calls' = [calls EXCEPT ![c].pc = "done"]
        /\ UNCHANGED <<sessions_dict, iterator, response, attentionFixed>>

\* summary = []; the for statement takes its iterator over lecture_sessions.items()
end_iter ==
    /\ iterator.pc = "idle"
    /\ iterator' = [pc |-> "next", di_used |-> Len(sessions_dict), di_pos |-> 0,
                    summary |-> {}]
    /\ UNCHANGED <<objects, sessions_dict, calls, response, attentionFixed>>

\* one turn of the for statement: the iterator raises RuntimeError when the dict
\* has changed size, ends the loop after the last item, else yields the next item
\* for the loop body; the handler answers 500 from its except clause, 200 after the loop
end_next ==
    /\ iterator.pc = "next"
    /\ IF Len(sessions_dict) # iterator.di_used
       THEN /\ response' = Response("end-lecture", 500, FALSE,
                                    "dictionary changed size during iteration")
            /\ iterator' = [iterator EXCEPT !.pc = "done"]
       ELSE IF iterator.di_pos >= Len(sessions_dict)
       THEN /\ response' = [Response("end-lecture", 200, TRUE, "") EXCEPT
                               !.summary = iterator.summary]
            /\ iterator' = [iterator EXCEPT !.pc = "done"]
       ELSE LET item == sessions_dict[iterator.di_pos + 1]
            IN /\ iterator' = [iterator EXCEPT
                                 !.di_pos = @ + 1,
                                 !.summary = @ \cup {SummaryEntry(item.name,
                                                                  objects[item.ref])}]
               /\ UNCHANGED response
    /\ UNCHANGED <<objects, sessions_dict, calls, attentionFixed>>

NextConc ==
    \/ ae_detect \/ ae_check \/ ae_create \/ ae_get \/ ae_smooth
    \/ ae_load_total \/ ae_store_total \/ ae_load_attentive \/ ae_store_attentive
    \/ end_iter \/ end_next

SpecConc == InitConc /\ [][NextConc]_vars

\* ------------------------------------------------------------------ _teach_unit on one cache key
\* the calls of any number of teachers for one (pdf_hash, unit_num), step by step
cacheFixed == <<emotion_recognition_available, lecture_sessions, result, response, observed,
                accepted, discarded, pct_in, pct_out, concVars, teachVars, serviceVars>>

InitCache ==
    /\ emotion_recognition_available = TRUE
    /\ lecture_sessions = [k \in {} |-> NewSession]
    /\ result = NoResult
    /\ response = NoResponse
    /\ observed = {}
    /\ accepted = [n \in Labels |-> <<>>]
    /\ discarded = {}
    /\ pct_in = [total_frames |-> 0, attentive_frames |-> 0]
    /\ pct_out = <<>>
    /\ InitConcVars
    /\ os_linesep \in {<<LF>>, <<CR, LF>>}
    /\ InitCacheVars
    /\ InitServiceVars
    /\ InitTeachVars

\* a teacher, of this process or a later one, calls _teach_unit for the key
tu_call ==
    \E c \in Lookups :
        /\ lookups[c].pc = "idle"
        /\ lookups' = [lookups EXCEPT ![c] = [@ EXCEPT !.pc = "exists",
                                                       !.stored_before = stored]]
        /\ UNCHANGED <<cache_file, stored, os_linesep, cacheFixed>>

\* if cache_file.exists():
tu_exists ==
    \E c \in Lookups :
        /\ lookups[c].pc = "exists"
        /\ lookups' = [lookups EXCEPT ![c].pc =
                          IF cache_file # NoFile THEN "read" ELSE "generate"]
        /\ UNCHANGED <<cache_file, stored, os_linesep, cacheFixed>>

\* return cache_file.read_text(...), or the except clause that goes on to regenerate
tu_read ==
    \E c \in Lookups, ok \in BOOLEAN :
        /\ lookups[c].pc = "read"
        /\ lookups' = [lookups EXCEPT ![c] =
                          IF ok THEN [@ EXCEPT !.pc = "returned",
                                               !.lecture = ReadText(cache_file)]
                          ELSE [@ EXCEPT !.pc = "generate"]]
        /\ UNCHANGED <<cache_file, stored, os_linesep, cacheFixed>>

\* "Cache miss - generate new lecture"
tu_generate ==
    \E c \in Lookups, text \in GenerateLecture(CachedUnit) :
        /\ lookups[c].pc = "generate"
        /\ lookups' = [lookups EXCEPT ![c] = [@ EXCEPT !.pc = "write",
                                                       !.lecture = text,
                                                       !.generated = TRUE]]
        /\ UNCHANGED <<cache_file, stored, os_linesep, cacheFixed>>

\* the apology and no-content messages of the cached unit
IsFallbackText(text) == text \in {TimeoutMessage(CachedUnit), NoContentMessage(CachedUnit)}

\* only what the language model wrote is saved; the fallback messages are returned unsaved
tu_write_GeneratedOnly ==
    \E c \in Lookups :
        /\ lookups[c].pc = "write"
        /\ IF IsFallbackText(lookups[c].lecture)
           THEN /\ UNCHANGED <<cache_file, stored>>
                /\ lookups' = [lookups EXCEPT ![c].pc = "returned"]
           ELSE \/ /\ cache_file' = WriteText(lookups[c].lecture)
                   /\ stored' = lookups[c].lecture
                   /\ lookups' = [lookups EXCEPT ![c] = [@ EXCEPT !.pc = "returned",
                                                                  !.write = "ok"]]
                \/ /\ cache_file' \in FailedWrite(cache_file)
                   /\ UNCHANGED stored
                   /\ lookups' = [lookups EXCEPT ![c] = [@ EXCEPT !.pc = "returned",
                                                                  !.write = "failed"]]
        /\ UNCHANGED <<os_linesep, cacheFixed>>

\* "Step 3: Save to cache", its failure only logged; return lecture
tu_write ==
    \E c \in Lookups :
        /\ lookups[c].pc = "write"
        /\ \/ /\ cache_file' = WriteText(lookups[c].lecture)
              /\ stored' = lookups[c].lecture
              /\ lookups' = [lookups EXCEPT ![c] = [@ EXCEPT !.pc = "returned",
                                                             !.write = "ok"]]
           \/ /\ cache_file' \in FailedWrite(cache_file)
              /\ UNCHANGED stored
              /\ lookups' = [lookups EXCEPT ![c] = [@ EXCEPT !.pc = "returned",
                                                             !.write = "failed"]]
        /\ UNCHANGED <<os_linesep, cacheFixed>>

NextCache == tu_call \/ tu_exists \/ tu_read \/ tu_generate \/ tu_write

SpecCache == InitCache /\ [][NextCache]_vars

\* ------------------------------------------------------------------ the teaching loops
\* one session of teach_entire_curriculum_with_highlighting ("highlighting") or
\* teach_entire_curriculum ("plain") and the background threads it starts
teachFixed == <<emotion_recognition_available, lecture_sessions, result, response, observed,
                accepted, discarded, pct_in, pct_out, concVars, os_linesep, cacheVars,
                variant, generation_error, serviceVars>>

\* the cache directory as earlier sessions on the same document left it
InitTeach ==
    /\ emotion_recognition_available = TRUE
    /\ lecture_sessions = [k \in {} |-> NewSession]
    /\ result = NoResult
    /\ response = NoResponse
    /\ observed = {}
    /\ accepted = [n \in Labels |-> <<>>]
    /\ discarded = {}
    /\ pct_in = [total_frames |-> 0, attentive_frames |-> 0]
    /\ pct_out = <<>>
    /\ InitConcVars
    /\ os_linesep = <<LF>>
    /\ InitCacheVars
    /\ InitServiceVars
    /\ variant \in {"highlighting", "plain"}
    /\ \E cached \in SUBSET Units :
          cache = [u \in Units |-> IF u \in cached
                                   THEN WriteText(Header(u) \o <<"a">>) ELSE NoFile]
    /\ fg_i = 1
    /\ fg_pc = "prepare"
    /\ lecture = NoneText
    /\ next_lecture = NoneText
    /\ next_lecture_ready = FALSE
    /\ generation_error = FALSE
    /\ threads = [u \in Units |-> NoThread]
    /\ events = <<>>
    /\ prepared = [u \in Units |-> NotPrepared]
    /\ teaching_complete = FALSE

\* a loop that does not wait for the handoff
HandoffReady_NoWait == TRUE

\* next_lecture_ready.wait() / next_lecture_thread.join() returns
HandoffReady ==
    IF variant = "highlighting" THEN next_lecture_ready
    ELSE threads[fg_i].pc = "finished"

\* preparation running two units ahead of the delivery
PrefetchUnits_TwoAhead(unit_num, total_units) ==
    {u \in {unit_num + 1, unit_num + 2} : u <= total_units /\ threads[u].pc = "none"}

\* no unit prepared ahead of its turn
PrefetchUnits_None(unit_num, total_units) == {}

\* "if i < total_units:" the unit a background thread is started for
PrefetchUnits(unit_num, total_units) ==
    IF unit_num < total_units THEN {unit_num + 1} ELSE {}

\* the flag raised one unit early
IsComplete_Early(unit_num, total_units) == unit_num >= total_units - 1

\* 'is_complete': i == total_units
IsComplete(unit_num, total_units) == unit_num = total_units

\* the target of the thread started for unit_num
ThreadKind(unit_num) ==
    IF variant = "plain" THEN "prepare_lecture"
    ELSE IF cache[unit_num] = NoFile THEN "generate_next_lesson" ELSE "load_cached"

\* "if i == 1:" lecture = self._teach_unit(unit, i, total_units)
fg_first ==
    /\ fg_pc = "prepare" /\ fg_i = 1
    /\ \E r \in TeachUnit(cache[1], 1) :
          /\ lecture' = r.lecture
          /\ cache' = [cache EXCEPT ![1] = r.file]
          /\ prepared' = [prepared EXCEPT ![1] = [source |-> r.source, lecture |-> r.lecture]]
    /\ fg_pc' = "start"
    /\ UNCHANGED <<fg_i, next_lecture, next_lecture_ready, threads, events,
                   teaching_complete, teachFixed>>

\* "else:" wait for the handoff and take the prepared lecture
fg_wait ==
    /\ fg_pc = "prepare" /\ fg_i > 1
    /\ HandoffReady
    /\ IF variant = "highlighting"
       THEN /\ IF generation_error
               THEN \E r \in TeachUnit(cache[fg_i], fg_i) :
                       /\ lecture' = r.lecture
                       /\ cache' = [cache EXCEPT ![fg_i] = r.file]
                       /\ prepared' = [prepared EXCEPT ![fg_i] =
                                          [source |-> r.source, lecture |-> r.lecture]]
               ELSE /\ lecture' = next_lecture
                    /\ UNCHANGED <<cache, prepared>>
            /\ next_lecture' = NoneText
            /\ next_lecture_ready' = FALSE
       ELSE /\ lecture' = next_lecture
            /\ UNCHANGED <<cache, prepared, next_lecture, next_lecture_ready>>
    /\ fg_pc' = "start"
    /\ UNCHANGED <<fg_i, threads, events, teaching_complete, teachFixed>>

\* _save_lecture, the start of the next unit's background thread, and the
\* beginning of the delivery: the lesson_start event, or the TypeError that
\* _clean_lecture_for_display raises on None
fg_start_lesson ==
    /\ fg_pc = "start"
    /\ threads' = [u \in Units |->
                     IF u \in PrefetchUnits(fg_i, MaxUnits)
                     THEN [pc |-> "run", kind |-> ThreadKind(u)] ELSE threads[u]]
    /\ next_lecture' = IF variant = "plain" /\ fg_i > 1 /\ fg_i < MaxUnits
                       THEN NoneText ELSE next_lecture
    /\ IF variant = "highlighting"
       THEN IF lecture = NoneText
            THEN fg_pc' = "raised" /\ UNCHANGED events
            ELSE /\ fg_pc' = "delivering"
                 /\ events' = Append(events, [type |-> "lesson_start", unit_number |-> fg_i,
                                              lecture |-> lecture, is_complete |-> FALSE])
       ELSE fg_pc' = "delivering" /\ UNCHANGED events
    /\ UNCHANGED <<cache, fg_i, lecture, next_lecture_ready, prepared, teaching_complete,
                   teachFixed>>

\* the end of the delivery: the lesson_end event (the one progress dict of the
\* plain loop), then the next turn of the loop or self.teaching_complete = True
fg_end_lesson ==
    /\ fg_pc = "delivering"
    /\ IF variant = "plain" /\ lecture = NoneText
       THEN fg_pc' = "raised" /\ UNCHANGED <<events, fg_i, teaching_complete>>
       ELSE /\ events' = Append(events,
                              [type |-> IF variant = "plain" THEN "progress" ELSE "lesson_end",
                               unit_number |-> fg_i, lecture |-> lecture,
                               is_complete |-> IsComplete(fg_i, MaxUnits)])
            /\ IF fg_i < MaxUnits
               THEN fg_i' = fg_i + 1 /\ fg_pc' = "prepare" /\ UNCHANGED teaching_complete
               ELSE fg_pc' = "done" /\ teaching_complete' = TRUE /\ UNCHANGED fg_i
    /\ UNCHANGED <<cache, lecture, next_lecture, next_lecture_ready, threads, prepared,
                   teachFixed>>

\* the thread target of teach_entire_curriculum_with_highlighting on a cache miss
generate_next_lesson ==
    \E u \in Units :
        /\ threads[u] = [pc |-> "run", kind |-> "generate_next_lesson"]
        /\ \E r \in TeachUnit(cache[u], u) :
              /\ next_lecture' = r.lecture
              /\ cache' = [cache EXCEPT ![u] = r.file]
              /\ prepared' = [prepared EXCEPT ![u] =
                                 [source |-> r.source, lecture |-> r.lecture]]
        /\ next_lecture_ready' = TRUE
        /\ threads' = [threads EXCEPT ![u].pc = "finished"]
        /\ UNCHANGED <<fg_i, fg_pc, lecture, events, teaching_complete, teachFixed>>

\* the thread target of teach_entire_curriculum_with_highlighting on a cache hit;
\* its except clause assigns a local generation_error, not the loop's
load_cached ==
    \E u \in Units, ok \in BOOLEAN :
        /\ threads[u] = [pc |-> "run", kind |-> "load_cached"]
        /\ IF ok
           THEN /\ next_lecture' = ReadText(cache[u])
                /\ prepared' = [prepared EXCEPT ![u] =
                                   [source |-> "cache", lecture |-> ReadText(cache[u])]]
           ELSE /\ UNCHANGED next_lecture
                /\ prepared' = [prepared EXCEPT ![u] =
                                   [source |-> "unreadable", lecture |-> next_lecture]]
        /\ next_lecture_ready' = TRUE
        /\ threads' = [threads EXCEPT ![u].pc = "finished"]
        /\ UNCHANGED <<cache, fg_i, fg_pc, lecture, events, teaching_complete, teachFixed>>

\* the thread target of teach_entire_curriculum
prepare_lecture ==
    \E u \in Units :
        /\ threads[u] = [pc |-> "run", kind |-> "prepare_lecture"]
        /\ \E r \in TeachUnit(cache[u], u) :
              /\ next_lecture' = r.lecture
              /\ cache' = [cache EXCEPT ![u] = r.file]
              /\ prepared' = [prepared EXCEPT ![u] =
                                 [source |-> r.source, lecture |-> r.lecture]]
        /\ threads' = [threads EXCEPT ![u].pc = "finished"]
        /\ UNCHANGED <<fg_i, fg_pc, lecture, next_lecture_ready, events, teaching_complete,
                       teachFixed>>

NextTeach ==
    \/ fg_first \/ fg_wait \/ fg_start_lesson \/ fg_end_lesson
    \/ generate_next_lesson \/ load_cached \/ prepare_lecture

SpecTeach == InitTeach /\ [][NextTeach]_vars

\* ------------------------------------------------------------------ properties
\* a step in which analyze_emotion took a detection into the session state
ObservedStep ==
    /\ response'.op = "analyze-emotion"
    /\ response'.status = 200
    /\ result'.success

\* the student's record, or the fresh one a first observation starts from
SessionOf(sessions, student_name) ==
    IF student_name \in DOMAIN sessions THEN sessions[student_name] ELSE NewSession

\* C1: an observation whose confidence is below the threshold leaves the length
\* of the student's history as it was and adds exactly 1 to total_frames.
C1_ConfidenceGating ==
    [][(ObservedStep /\ result'.confidence < CONFIDENCE_THRESHOLD) =>
          /\ result'.student_name \in DOMAIN lecture_sessions'
          /\ Len(lecture_sessions'[result'.student_name].history)
               = Len(SessionOf(lecture_sessions, result'.student_name).history)
          /\ lecture_sessions'[result'.student_name].total_frames
               = SessionOf(lecture_sessions, result'.student_name).total_frames + 1]_vars

\* a low-confidence frame has been counted for a student whose window holds entries
C1_Witness ==
    /\ response.op = "analyze-emotion" /\ response.status = 200
    /\ result.confidence < CONFIDENCE_THRESHOLD
    /\ Len(lecture_sessions[result.student_name].history) = 2
    /\ lecture_sessions[result.student_name].total_frames = 3

\* C2: after an accepted observation that leaves HISTORY_LENGTH entries in the
\* history, current_state is (number of true entries >= CONSECUTIVE_FRAMES_REQUIRED);
\* [true,false,true] gives true and [false,false,true] gives false.
C2_MajorityVote ==
    [][(ObservedStep /\ result'.confidence >= CONFIDENCE_THRESHOLD
          /\ Len(lecture_sessions'[result'.student_name].history) = HISTORY_LENGTH) =>
          /\ lecture_sessions'[result'.student_name].current_state
               = (Cardinality({i \in 1..HISTORY_LENGTH :
                      lecture_sessions'[result'.student_name].history[i]})
                    >= CONSECUTIVE_FRAMES_REQUIRED)
          /\ lecture_sessions'[result'.student_name].history = <<TRUE, FALSE, TRUE>>
               => lecture_sessions'[result'.student_name].current_state
          /\ lecture_sessions'[result'.student_name].history = <<FALSE, FALSE, TRUE>>
               => ~lecture_sessions'[result'.student_name].current_state]_vars

\* the window [true,false,true] has just been voted attentive
C2_Witness ==
    /\ response.op = "analyze-emotion" /\ response.status = 200
    /\ result.confidence >= CONFIDENCE_THRESHOLD
    /\ lecture_sessions[result.student_name].history = <<TRUE, FALSE, TRUE>>
    /\ lecture_sessions[result.student_name].current_state

\* the two windows are the last HISTORY_LENGTH accepted observations
WindowInv ==
    \A n \in DOMAIN lecture_sessions :
        /\ Len(lecture_sessions[n].history) = Len(lecture_sessions[n].confidence_scores)
        /\ Len(lecture_sessions[n].history) <= HISTORY_LENGTH

\* C3: for every tracked student len(history) = len(confidence_scores) <=
\* HISTORY_LENGTH, and an accepted observation that overflows the window evicts
\* the oldest entry of both sequences together.
C3_WindowBound ==
    /\ []WindowInv
    /\ [][(ObservedStep /\ result'.confidence >= CONFIDENCE_THRESHOLD
             /\ Len(SessionOf(lecture_sessions, result'.student_name).history) = HISTORY_LENGTH) =>
             /\ lecture_sessions'[result'.student_name].history
                  = Append(Tail(lecture_sessions[result'.student_name].history),
                           result'.is_attentive)
             /\ lecture_sessions'[result'.student_name].confidence_scores
                  = Append(Tail(lecture_sessions[result'.student_name].confidence_scores),
                           result'.confidence)]_vars

\* a fourth observation has been accepted: the first one is gone from both windows
C3_Witness ==
    /\ response.op = "analyze-emotion" /\ response.status = 200
    /\ Len(accepted[result.student_name]) = HISTORY_LENGTH + 1
    /\ Len(lecture_sessions[result.student_name].history) = HISTORY_LENGTH
    /\ lecture_sessions[result.student_name].confidence_scores
         = <<accepted[result.student_name][2].confidence,
             accepted[result.student_name][3].confidence,
             accepted[result.student_name][4].confidence>>
    /\ accepted[result.student_name][1].confidence # accepted[result.student_name][4].confidence
    /\ accepted[result.student_name][1].raw # accepted[result.student_name][4].raw

\* C4: while fewer than HISTORY_LENGTH observations (and at least one) have been
\* accepted for a student, current_state is the raw attentive boolean of the
\* most recent accepted observation.
C4_WarmUp ==
    \A n \in DOMAIN lecture_sessions :
        (Len(accepted[n]) >= 1 /\ Len(accepted[n]) < HISTORY_LENGTH) =>
            lecture_sessions[n].current_state = accepted[n][Len(accepted[n])].raw

\* two attentive observations out of two accepted ones, the later one distracted:
\* a vote would say attentive, the state says distracted
C4_Witness ==
    \E n \in DOMAIN lecture_sessions :
        /\ Len(accepted[n]) = 2
        /\ accepted[n][1].raw /\ ~accepted[n][2].raw
        /\ ~lecture_sessions[n].current_state
        /\ lecture_sessions[n].total_frames = 3

CountersInv ==
    \A n \in DOMAIN lecture_sessions :
        /\ 0 <= lecture_sessions[n].attentive_frames
        /\ lecture_sessions[n].attentive_frames <= lecture_sessions[n].total_frames

C6_Isolation ==
    [][ObservedStep =>
          \A m \in Labels \ {result'.student_name} :
              /\ (m \in DOMAIN lecture_sessions') = (m \in DOMAIN lecture_sessions)
              /\ m \in DOMAIN lecture_sessions => lecture_sessions'[m] = lecture_sessions[m]]_vars

\* an accepted observation of one student while another one is tracked with
\* a different window
C6_Witness ==
    /\ response.op = "analyze-emotion" /\ response.status = 200
    /\ result.confidence >= CONFIDENCE_THRESHOLD
    /\ \E m \in DOMAIN lecture_sessions :
          /\ m # result.student_name
          /\ lecture_sessions[m].history # <<>>
          /\ lecture_sessions[m].history # lecture_sessions[result.student_name].history
          /\ lecture_sessions[m].total_frames # lecture_sessions[result.student_name].total_frames

\* C7: every detection the detector reports, "Unknown" included, is answered
\* with success and counted in the entry under its label.
C7_NoObservationRejected ==
    [][(response'.op = "analyze-emotion" /\ result'.success) =>
          /\ response'.status = 200
          /\ response'.success
          /\ response'.data.student_name = result'.student_name
          /\ result'.student_name \in DOMAIN lecture_sessions'
          /\ lecture_sessions'[result'.student_name].total_frames
               = SessionOf(lecture_sessions, result'.student_name).total_frames + 1]_vars

\* an unrecognized face has been counted a second time under "Unknown"
C7_Witness ==
    /\ response.op = "analyze-emotion" /\ response.status = 200
    /\ result.success /\ result.student_name = "Unknown"
    /\ "Unknown" \in DOMAIN lecture_sessions
    /\ lecture_sessions["Unknown"].total_frames = 2

C9_Percentage ==
    pct_out # <<>> =>
        LET t == pct_in.total_frames
            a == pct_in.attentive_frames
            p == pct_out[1].attentive_percentage
        IN /\ pct_out[1].total_frames = t /\ pct_out[1].attentive_frames = a
           /\ p \in 0..100
           /\ t = 0 => p = 0
           /\ t > 0 => (2 * (100 * a - p * t) <= t /\ 2 * (p * t - 100 * a) <= t)
           /\ (t = 10 /\ a = 7) => p = 70

\* the entry of a student with 7 attentive frames out of 10
C9_Witness ==
    /\ pct_out # <<>>
    /\ pct_in.total_frames = 10 /\ pct_in.attentive_frames = 7
    /\ pct_out[1].attentive_percentage = 70

\* C10: the summary has exactly one entry for each label observed since the most
\* recent start-lecture and none for any other label.
C10_SummaryMembership ==
    (response.op = "end-lecture" /\ response.status = 200) =>
        \A n \in Labels :
            Cardinality({e \in response.summary : e.name = n})
                = IF n \in observed THEN 1 ELSE 0

\* a summary with an entry for the one observed label and none for the other
C10_Witness ==
    /\ response.op = "end-lecture" /\ response.status = 200
    /\ observed = {"Unknown"}
    /\ \E e \in response.summary : e.name = "Unknown" /\ e.total_frames = 2
    /\ \A e \in response.summary : e.name # "Alice"

AllReturned == \A c \in Calls : calls[c].pc \in {"idle", "done"}

\* the requests that have returned
Returned == {c \in Calls : calls[c].pc = "done"}

\* C12: once all concurrent analyze_emotion requests have returned, the
\* total_frames of the tracked students add up to the number of requests.
C12_NoLostUpdate ==
    AllReturned =>
        SumTotalFrames(Deref(sessions_dict, objects)) = Cardinality(Returned)

\* C13: end-lecture answers with a summary, never with a failure, also while
\* analyze_emotion requests for new students are running.
C13_AlwaysSummary ==
    response.op = "end-lecture" => (response.status = 200 /\ response.success)

\* C14: a _teach_unit call made once a text has been stored for the key
\* returns exactly that text and generates nothing.
C14_CacheIdempotence ==
    \A c \in Lookups :
        (lookups[c].pc = "returned" /\ lookups[c].stored_before # NoFile) =>
            /\ lookups[c].lecture = lookups[c].stored_before
            /\ ~lookups[c].generated

\* C15: a cache file that exists is never written again.
C15_WriteOnce ==
    [][cache_file # NoFile => cache_file' = cache_file]_vars

\* C16: a failure of the lecture cache never ends the teaching loop with an
\* exception.
C16_CacheFailureDegrades == fg_pc # "raised"

\* the unit the j-th event of the session belongs to when the units come in
\* curriculum order: lesson_start and lesson_end per unit, or one progress dict
EventUnit(j) == IF variant = "highlighting" THEN (j + 1) \div 2 ELSE j

\* the events a session yields for one unit
EventsPerUnit == IF variant = "highlighting" THEN 2 ELSE 1

\* C17: the events come in curriculum order, one delivery per unit, each with the
\* lecture prepared for its unit; is_complete is set on the last event of the last
\* unit and on no other; teaching_complete is set only after all units were delivered.
C17_DeliveryOrder ==
    /\ Len(events) <= EventsPerUnit * MaxUnits
    /\ \A j \in 1 .. Len(events) :
          /\ events[j].unit_number = EventUnit(j)
          /\ events[j].type = (IF variant = "plain" THEN "progress"
                               ELSE IF j % 2 = 1 THEN "lesson_start" ELSE "lesson_end")
          /\ events[j].lecture = prepared[EventUnit(j)].lecture
          /\ events[j].lecture # NoneText
          /\ events[j].is_complete <=> j = EventsPerUnit * MaxUnits
    /\ teaching_complete <=> Len(events) = EventsPerUnit * MaxUnits

\* all units of a highlighting session delivered, the last event flagged
C17_Witness ==
    /\ variant = "highlighting" /\ teaching_complete
    /\ Len(events) = 2 * MaxUnits
    /\ events[Len(events)].unit_number = MaxUnits /\ events[Len(events)].is_complete
    /\ events[1].lecture # events[3].lecture

\* C18: at most one background thread runs at a time, and a thread for a unit
\* exists only when the threads of all earlier units have finished.
C18_OneBackgroundTask ==
    /\ Cardinality({u \in Units : threads[u].pc = "run"}) <= 1
    /\ \A u \in Units : threads[u].pc # "none" =>
          \A v \in 2 .. (u - 1) : threads[v].pc = "finished"

\* the thread for unit 3 runs after the thread for unit 2 has finished
C18_Witness ==
    /\ threads[2].pc = "finished"
    /\ threads[3].pc = "run"

\* the loop has taken the lecture of unit u from the handoff
Taken(u) == fg_i > u \/ (fg_i = u /\ fg_pc # "prepare")

\* C19: the loop goes past the handoff for a unit, and so begins its delivery,
\* only when the background thread of that unit has finished.
C19_WaitBeforeAdvance ==
    \A u \in 2 .. MaxUnits : Taken(u) => threads[u].pc = "finished"

\* unit 2 is being delivered, prepared by its thread, while unit 3 is prepared
C19_Witness ==
    /\ fg_i = 2 /\ fg_pc = "delivering"
    /\ threads[2].pc = "finished" /\ threads[3].pc = "run"
    /\ lecture = prepared[2].lecture /\ lecture # NoneText

C21_BackgroundFallback ==
    fg_pc \in {"start", "delivering", "done"} => lecture # NoneText

\* C22: while a unit with a successor is delivered, and ever after, the thread
\* preparing the successor has been started; the end of a delivery depends on no
\* thread, and a loop whose next unit is already prepared goes on without waiting.
C22_PrefetchOverlap ==
    /\ \A u \in 1 .. (MaxUnits - 1) :
          (fg_i > u \/ (fg_i = u /\ fg_pc = "delivering")) => threads[u + 1].pc # "none"
    /\ fg_pc = "delivering" => ENABLED fg_end_lesson
    /\ (fg_pc = "prepare" /\ fg_i > 1 /\ threads[fg_i].pc = "finished") => ENABLED fg_wait

\* unit 1 is still being delivered and unit 2 is already in the handoff slot
C22_Witness ==
    /\ fg_i = 1 /\ fg_pc = "delivering"
    /\ threads[2].pc = "finished"
    /\ next_lecture = prepared[2].lecture /\ next_lecture # NoneText

\* ---------------------------------------------------------------------------
\* generate_with_ollama (teaching/rag_engine.py) under _generate_teacher_lecture

\* what one requests.post ends with
RequestOutcomes ==
    {[kind |-> "ok", text |-> c] : c \in LectureContents}
        \cup {[kind |-> k, text |-> <<>>] :
                k \in {"http_error", "connection_error", "timeout", "error"}}

\* every failed request retried while the budget lasts
AfterRequest_RetryAll(g, o) ==
    LET g1 == [g EXCEPT !.outcomes = Append(@, o.kind)]
    IN  CASE o.kind = "ok" -> [g1 EXCEPT !.status = "returned", !.response = o.text]
          [] o.kind # "ok" /\ g.attempt < g.max_retries -> [g1 EXCEPT !.attempt = @ + 1]
          [] OTHER -> [g1 EXCEPT !.status = "raised"]

\* one pass of the attempt loop: status 200 returns the text, a Timeout continues
\* while attempt < max_retries, everything else raises
AfterRequest(g, o) ==
    LET g1 == [g EXCEPT !.outcomes = Append(@, o.kind)]
    IN  CASE o.kind = "ok" -> [g1 EXCEPT !.status = "returned", !.response = o.text]
          [] o.kind = "timeout" /\ g.attempt < g.max_retries -> [g1 EXCEPT !.attempt = @ + 1]
          [] OTHER -> [g1 EXCEPT !.status = "raised"]

ollamaFixed == <<emotion_recognition_available, lecture_sessions, result, response, observed,
                 accepted, discarded, pct_in, pct_out, concVars, os_linesep, cacheVars,
                 teachVars, senku_state, streams, teachers>>

InitOllama ==
    /\ emotion_recognition_available = TRUE
    /\ lecture_sessions = [k \in {} |-> NewSession]
    /\ result = NoResult
    /\ response = NoResponse
    /\ observed = {}
    /\ accepted = [n \in Labels |-> <<>>]
    /\ discarded = {}
    /\ pct_in = [total_frames |-> 0, attentive_frames |-> 0]
    /\ pct_out = 0
    /\ InitConcVars
    /\ os_linesep = <<LF>>
    /\ InitCacheVars
    /\ InitServiceVars
    /\ InitTeachVars

\* _generate_teacher_lecture enters generate_with_ollama for a unit
gl_call ==
    /\ generation.status = "idle"
    /\ \E m \in 0 .. MaxRetries, u \in Units :
          generation' = [IdleGeneration EXCEPT !.max_retries = m, !.unit_num = u,
                                               !.status = "running"]
    /\ UNCHANGED ollamaFixed

\* one requests.post of the attempt loop and the branch its outcome takes
post_request ==
    /\ generation.status = "running"
    /\ generation.attempt \in 0 .. generation.max_retries
    /\ \E o \in RequestOutcomes : generation' = AfterRequest(generation, o)
    /\ UNCHANGED ollamaFixed

\* _generate_teacher_lecture after the call: the lecture, or the except clause
gl_return ==
    /\ generation.status \in {"returned", "raised"}
    /\ generation.lecture = NoneText
    /\ generation' =
          [generation EXCEPT !.lecture =
              GenerateTeacherLecture(generation.unit_num,
                  [raised |-> generation.status = "raised",
                   response |-> IF generation.status = "raised" THEN <<>>
                                ELSE generation.response])]
    /\ UNCHANGED ollamaFixed

NextOllama == gl_call \/ post_request \/ gl_return

SpecOllama == InitOllama /\ [][NextOllama]_vars

\* the calling thread runs on: every step that can be taken is taken
FairOllama == SpecOllama /\ WF_vars(NextOllama)

RequestsInv ==
    /\ Len(generation.outcomes) <= generation.max_retries + 1
    /\ \A j \in 1 .. (Len(generation.outcomes) - 1) : generation.outcomes[j] = "timeout"
    /\ generation.status = "running" =>
          /\ generation.attempt = Len(generation.outcomes)
          /\ generation.attempt <= generation.max_retries
          /\ ENABLED post_request
    /\ generation.status = "returned" =>
          generation.outcomes[Len(generation.outcomes)] = "ok"
    /\ generation.status = "raised" =>
          generation.outcomes[Len(generation.outcomes)] # "ok"
    /\ generation.lecture # NoneText =>
          generation.lecture =
              IF generation.status = "raised"
              THEN TimeoutMessage(generation.unit_num)
              ELSE Header(generation.unit_num) \o generation.response

\* C24: one call issues at most max_retries + 1 requests, goes on to another
\* request only after a timeout, and always ends returning a text or raising;
\* when it raised, the unit's lecture is the apology message
C24_BoundedRetry ==
    /\ []RequestsInv
    /\ (generation.status = "running") ~> (generation.lecture # NoneText)

C24_Witness ==
    /\ generation.max_retries = MaxRetries
    /\ Len(generation.outcomes) = MaxRetries + 1
    /\ generation.status = "raised"
    /\ generation.lecture = TimeoutMessage(generation.unit_num)

\* ---------------------------------------------------------------------------
\* The Senku teaching endpoints (app.py): every start-teaching request has its
\* own teacher and its own generate() stream; all share senku_state.

streamFixed == <<emotion_recognition_available, lecture_sessions, result, response, observed,
                 accepted, discarded, pct_in, pct_out, concVars, os_linesep, cacheVars,
                 teachVars, generation>>

ActiveStream(s) == streams[s].pc \notin {"none", "ended"}

\* POST /api/senku/teach: a new teacher, the flags reset, the stream returned
senku_start_teaching ==
    /\ \E s \in Streams :
          /\ streams[s].pc = "none"
          /\ \A r \in 1 .. (s - 1) : streams[r].pc # "none"
          /\ senku_state' = [current_teacher |-> s, teaching_active |-> TRUE,
                             teaching_stopped |-> FALSE, teaching_paused |-> FALSE]
          /\ streams' = [streams EXCEPT ![s].pc = "next"]
          /\ teachers' = [teachers EXCEPT ![s] = [pc |-> "prepare", unit |-> 1,
                                                   thread |-> "none"]]
    /\ UNCHANGED streamFixed

\* POST /api/senku/teach/pause
senku_pause_teaching ==
    /\ senku_state' = [senku_state EXCEPT !.teaching_paused = ~@]
    /\ UNCHANGED <<streams, teachers, streamFixed>>

\* POST /api/senku/teach/stop; stop_accepted records the streams active at the request
senku_stop_teaching ==
    /\ senku_state' = [senku_state EXCEPT !.teaching_stopped = TRUE,
                                          !.teaching_paused = FALSE]
    /\ streams' = [s \in Streams |->
                      IF ActiveStream(s) THEN [streams[s] EXCEPT !.stop_accepted = TRUE]
                      ELSE streams[s]]
    /\ UNCHANGED <<teachers, streamFixed>>

\* the teacher's generator can reach its next yield, or its end
TeacherCanAdvance(t) ==
    \/ t.pc = "prepare" /\ (t.unit = 1 \/ t.thread = "finished")
    \/ t.pc \in {"deliver", "last"}

\* the teacher at its next yield: the lecture taken (unit 1 prepared in the loop,
\* the others after next_lecture_ready.wait()), the thread for the unit after
\* started, lesson_start yielded; then lesson_end; then the end of the loop
TeacherAdvance(t) ==
    CASE t.pc = "prepare" ->
            [yield |-> "lesson_start",
             teacher |-> [pc |-> "deliver", unit |-> t.unit,
                          thread |-> IF t.unit < MaxUnits THEN "run" ELSE "none"]]
      [] t.pc = "deliver" ->
            [yield |-> "lesson_end",
             teacher |-> IF t.unit < MaxUnits
                         THEN [t EXCEPT !.pc = "prepare", !.unit = @ + 1]
                         ELSE [t EXCEPT !.pc = "last"]]
      [] OTHER -> [yield |-> "none", teacher |-> [t EXCEPT !.pc = "done"]]

\* "for progress in teacher.teach_entire_curriculum_with_highlighting()": one next()
gen_next ==
    /\ \E s \in Streams :
          /\ streams[s].pc = "next"
          /\ TeacherCanAdvance(teachers[s])
          /\ LET a == TeacherAdvance(teachers[s])
             IN  /\ teachers' = [teachers EXCEPT ![s] = a.teacher]
                 /\ streams' = [streams EXCEPT ![s] =
                       IF a.yield = "none" THEN [@ EXCEPT !.pc = "cleanup"]
                       ELSE [@ EXCEPT !.pc = "check_stopped", !.progress = a.yield,
                                      !.fetched_after_stop = streams[s].stop_accepted]]
    /\ UNCHANGED <<senku_state, streamFixed>>

\* the daemon thread of the teacher ends: its _teach_unit has returned
bg_thread ==
    /\ \E s \in Streams :
          /\ teachers[s].thread = "run"
          /\ teachers' = [teachers EXCEPT ![s].thread = "finished"]
    /\ UNCHANGED <<senku_state, streams, streamFixed>>

\* "if senku_state.get('teaching_stopped')": the stopped message and break
gen_check_stopped ==
    /\ \E s \in Streams :
          /\ streams[s].pc = "check_stopped"
          /\ streams' = [streams EXCEPT ![s] =
                IF senku_state.teaching_stopped
                THEN [@ EXCEPT !.pc = "cleanup", !.emitted = Append(@, "stopped")]
                ELSE [@ EXCEPT !.pc = "check_paused"]]
    /\ UNCHANGED <<senku_state, teachers, streamFixed>>

\* "while senku_state.get('teaching_paused')"
gen_check_paused ==
    /\ \E s \in Streams :
          /\ streams[s].pc = "check_paused"
          /\ streams' = [streams EXCEPT ![s].pc =
                IF senku_state.teaching_paused THEN "sleep" ELSE "check_stopped_again"]
    /\ UNCHANGED <<senku_state, teachers, streamFixed>>

\* the body of the pause loop: sleep, then the stopped message and break
gen_sleep ==
    /\ \E s \in Streams :
          /\ streams[s].pc = "sleep"
          /\ streams' = [streams EXCEPT ![s] =
                IF senku_state.teaching_stopped
                THEN [@ EXCEPT !.pc = "check_stopped_again",
                               !.emitted = Append(@, "stopped")]
                ELSE [@ EXCEPT !.pc = "check_paused"]]
    /\ UNCHANGED <<senku_state, teachers, streamFixed>>

\* the second "if senku_state.get('teaching_stopped'): break"
gen_check_stopped_again ==
    /\ \E s \in Streams :
          /\ streams[s].pc = "check_stopped_again"
          /\ streams' = [streams EXCEPT ![s].pc =
                IF senku_state.teaching_stopped THEN "cleanup" ELSE "yield"]
    /\ UNCHANGED <<senku_state, teachers, streamFixed>>

\* "yield f'data: {json.dumps(progress)}'"
gen_yield ==
    /\ \E s \in Streams :
          /\ streams[s].pc = "yield"
          /\ streams' = [streams EXCEPT ![s] =
                [@ EXCEPT !.pc = "next", !.emitted = Append(@, streams[s].progress)]]
    /\ UNCHANGED <<senku_state, teachers, streamFixed>>

\* after the loop: the four assignments to senku_state
gen_cleanup ==
    /\ \E s \in Streams :
          /\ streams[s].pc = "cleanup"
          /\ streams' = [streams EXCEPT ![s].pc = "ended"]
    /\ senku_state' = [current_teacher |-> 0, teaching_active |-> FALSE,
                       teaching_stopped |-> FALSE, teaching_paused |-> FALSE]
    /\ UNCHANGED <<teachers, streamFixed>>

NextStream ==
    \/ senku_start_teaching \/ senku_pause_teaching \/ senku_stop_teaching
    \/ gen_next \/ bg_thread \/ gen_check_stopped \/ gen_check_paused \/ gen_sleep
    \/ gen_check_stopped_again \/ gen_yield \/ gen_cleanup

SpecStream == InitOllama /\ [][NextStream]_vars

\* C23: a stopped session is not held up by the background generation of the next
\* unit, and that generation is abandoned: no stream whose stop was accepted waits
\* in next() for the teacher's running thread, and no stream that ended after a
\* stop leaves that thread running
C23_Cancellation ==
    \A s \in Streams :
        streams[s].stop_accepted =>
            /\ ~(/\ streams[s].pc = "next"
                 /\ teachers[s].pc = "prepare"
                 /\ teachers[s].thread = "run")
            /\ ~(streams[s].pc = "ended" /\ teachers[s].thread = "run")

\* the progress events a stream emitted whose next() returned after a stop
\* request for the stream had been accepted
EmittedAfterStop(s) ==
    streams[s].pc = "next" /\ streams[s].fetched_after_stop /\ streams[s].progress # "none"

\* C30: once a stop request was accepted while a stream is active, the stream
\* emits no progress event that it fetched after the request
C30_StopEffective ==
    \A s \in Streams : ~EmittedAfterStop(s)

\* ---------------------------------------------------------------------------
\* SpecTeach with the threads scheduled fairly and every call of a step returning:
\* the loop and the background threads each take the step they can take
FairTeach ==
    /\ SpecTeach
    /\ WF_vars(fg_first \/ fg_wait \/ fg_start_lesson \/ fg_end_lesson)
    /\ WF_vars(generate_next_lesson \/ load_cached \/ prepare_lecture)

\* all units delivered: the last event of every unit was yielded
AllDelivered ==
    /\ Len(events) = EventsPerUnit * MaxUnits
    /\ \A j \in 1 .. Len(events) : events[j].unit_number = EventUnit(j)

\* C25: a session over MaxUnits units eventually is done with all units delivered
C25_ForwardProgress == <>(fg_pc = "done" /\ teaching_complete /\ AllDelivered)

\* the loop never waits forever on the handoff, and ends one way or the other
ProgressOrAbort ==
    /\ (fg_pc = "prepare") ~> (fg_pc # "prepare")
    /\ <>(fg_pc \in {"done", "raised"})
    /\ [](fg_pc = "done" => teaching_complete /\ AllDelivered)

\* ---------------------------------------------------------------------------
\* C26: an observation below the threshold leaves the student's current_state,
\* history, confidence_scores and distraction tally as they were (those of a
\* fresh record for a student created by the call) and adds 1 to attentive_frames
\* exactly when the smoothed state before the call was true.
C26_LowConfidenceAccounting ==
    [][(ObservedStep /\ result'.confidence < CONFIDENCE_THRESHOLD) =>
          /\ result'.student_name \in DOMAIN lecture_sessions'
          /\ LET before == SessionOf(lecture_sessions, result'.student_name)
                 after == lecture_sessions'[result'.student_name]
             IN  /\ after.current_state = before.current_state
                 /\ after.history = before.history
                 /\ after.confidence_scores = before.confidence_scores
                 /\ after.distraction_reasons = before.distraction_reasons
                 /\ after.attentive_frames =
                       before.attentive_frames + (IF before.current_state THEN 1 ELSE 0)]_vars

\* a low-confidence frame whose raw value is attentive has been counted for a
\* student whose smoothed state is distracted: it was not counted as attentive
C26_Witness ==
    /\ response.op = "analyze-emotion" /\ response.status = 200
    /\ result.confidence < CONFIDENCE_THRESHOLD /\ result.is_attentive
    /\ ~lecture_sessions[result.student_name].current_state
    /\ lecture_sessions[result.student_name].total_frames = 2
    /\ lecture_sessions[result.student_name].attentive_frames = 0

\* the accepted observations of a student whose raw value is distracted
RECURSIVE CountDistracted(_)
CountDistracted(obs) ==
    IF obs = <<>> THEN 0
    ELSE (IF Head(obs).raw THEN 0 ELSE 1) + CountDistracted(Tail(obs))

\* C27: the tally of a student holds only distraction reasons, one count for each
\* accepted distracted observation since the session started and for nothing
\* else, and the distraction_count of a summary is that number.
C27_DistractionTally ==
    /\ \A n \in DOMAIN lecture_sessions :
          /\ DOMAIN lecture_sessions[n].distraction_reasons \subseteq Reasons
          /\ SumValues(lecture_sessions[n].distraction_reasons)
                = CountDistracted(accepted[n])
    /\ (response.op = "end-lecture" /\ response.status = 200) =>
          \A e \in response.summary : e.distraction_count = CountDistracted(accepted[e.name])

\* a summary of a student with three frames: one accepted and distracted, one
\* accepted and attentive, one below the threshold
C27_Witness ==
    /\ response.op = "end-lecture" /\ response.status = 200
    /\ \E e \in response.summary :
          /\ e.distraction_count = 1
          /\ e.total_frames = 3
          /\ Len(accepted[e.name]) = 2

\* ---------------------------------------------------------------------------
\* the thread of unit u has assigned next_lecture
Written(u) == prepared[u].source \notin {"none", "unreadable"}

\* the handoff apart from the write itself: the lecture taken for a unit is what
\* its thread prepared, and while the loop waits, takes and resets the slot no
\* thread of a later unit exists that could write it
HandoffInv ==
    /\ \A u \in 2 .. MaxUnits :
          (fg_i = u /\ fg_pc \in {"start", "delivering"}) => lecture = prepared[u].lecture
    /\ fg_pc \in {"prepare", "start"} => \A v \in Units : v > fg_i => threads[v].pc = "none"
    /\ \A u \in Units : threads[u].pc = "run" => prepared[u].source = "none"

\* C28: the slot of each unit after the first is written once, by the thread of
\* that unit, before the loop takes it; the taking and the reset do not overlap a
\* thread that writes; the lecture taken is the one written for the unit.
C28_SingleSlotHandoff ==
    /\ \A u \in 2 .. MaxUnits : threads[u].pc = "finished" => Written(u)
    /\ HandoffInv

\* ---------------------------------------------------------------------------
\* C29 as stated: a fallback message that arose in a call is in the cache file,
\* and every call made once a fallback message has been stored returns that
\* message and generates nothing.
C29_FallbackCachedForever ==
    \A c \in Lookups :
        /\ (lookups[c].pc = "returned" /\ lookups[c].generated
                /\ IsFallbackText(lookups[c].lecture)) => lookups[c].write = "ok"
        /\ (lookups[c].pc = "returned" /\ IsFallbackText(lookups[c].stored_before)) =>
              /\ lookups[c].lecture = lookups[c].stored_before
              /\ ~lookups[c].generated

\* every call that ended with a fallback message it produced has attempted the write
FallbackWriteAttempted ==
    \A c \in Lookups :
        (lookups[c].pc = "returned" /\ lookups[c].generated
            /\ IsFallbackText(lookups[c].lecture)) => lookups[c].write \in {"ok", "failed"}

\* a write of a fallback message that succeeds leaves a file that reads back as the message
FallbackWriteStep ==
    \A c \in Lookups :
        (lookups[c].pc = "write" /\ lookups'[c].write = "ok"
            /\ IsFallbackText(lookups[c].lecture)) =>
                ReadText(cache_file') = lookups[c].lecture

\* a call that reads a file holding a fallback message returns it and has not generated
FallbackReadStep ==
    \A c \in Lookups :
        (lookups[c].pc = "read" /\ lookups'[c].pc = "returned"
            /\ IsFallbackText(ReadText(cache_file))) =>
                /\ lookups'[c].lecture = ReadText(cache_file)
                /\ ~lookups'[c].generated

\* C29: a fallback message is written to the cache file like a generated lecture,
\* and reads back unchanged when the write succeeds; a later call that finds the
\* file and reads it returns the message as a cache hit without generating.
C29_FallbackCached ==
    /\ []FallbackWriteAttempted
    /\ [][FallbackWriteStep /\ FallbackReadStep]_vars

\* one call produced a fallback message and stored it with "\r\n" line ends; the
\* other call, begun afterwards, returned it from the file without generating
C29_Witness ==
    /\ os_linesep = <<CR, LF>>
    /\ \E c, d \in Lookups :
          /\ lookups[c].pc = "returned" /\ lookups[c].generated /\ lookups[c].write = "ok"
          /\ IsFallbackText(lookups[c].lecture)
          /\ lookups[d].pc = "returned" /\ ~lookups[d].generated
          /\ lookups[d].stored_before = lookups[c].lecture
          /\ lookups[d].lecture = lookups[c].lecture

====
